---- MODULE Spec2Model ----
(***************************************************************************)
(* Model of the two entry points of the SBDL repository:                   *)
(*   src/sbdl_main.py  - argument check and session bootstrap              *)
(*   src/something.py  - PATH normalisation, version gate, session         *)
(*                       creation, diagnostics and cleanup                 *)
(* Python strings are modelled as sequences of one-character strings so    *)
(* that split, join, lower, upper, strip, startswith and the substring     *)
(* test are computed the way the interpreter computes them.                *)
(***************************************************************************)
EXTENDS Integers, Sequences, FiniteSets, TLC

VARIABLES
    script,        \* which entry point this process runs
    pc,            \* position of the interpreter in the script
    status,        \* "running" | "sys_exit" | "uncaught" | "ended"
    exitCode,      \* argument of sys.exit, 1 for an uncaught exception, 0 at a normal end
    argv,          \* sys.argv
    executable,    \* sys.executable
    environ,       \* os.environ: variable name -> value
    environ0,      \* history: os.environ as it was when the process started
    envReads,      \* history: names read from os.environ, in order
    envWrites,     \* history: names assigned in os.environ
    dirs,          \* directories that exist on disk
    bound,         \* names of the script's global variables that are assigned
    version,       \* value of the global `version` (<<>> while unassigned)
    response,      \* value of the global `response` (<<>> while unassigned)
    sessionArgs,   \* history: arguments of the calls of utils.get_spark_session
    out,           \* history: what the script printed, as tags
    stages,        \* history: stages of the something.py state machine entered
    stopAttempts,  \* history: number of times spark.stop() was evaluated
    raised         \* history: the places where an exception was raised

vars == <<script, pc, status, exitCode, argv, executable, environ, environ0,
          envReads, envWrites, dirs, bound, version, response, sessionArgs, out,
          stages, stopAttempts, raised>>

----------------------------------------------------------------------------
(* Bounds of the model *)

\* longest PATH, in segments, that a run of something.py starts from
MaxSegs == 3
\* largest number of command-line arguments after the program name
MaxArgs == 3

----------------------------------------------------------------------------
(* Python str operations *)

UpperLetters == <<"A", "B", "C", "D", "E", "F", "G", "H", "I", "J", "K", "L", "M",
                  "N", "O", "P", "Q", "R", "S", "T", "U", "V", "W", "X", "Y", "Z">>
LowerLetters == <<"a", "b", "c", "d", "e", "f", "g", "h", "i", "j", "k", "l", "m",
                  "n", "o", "p", "q", "r", "s", "t", "u", "v", "w", "x", "y", "z">>

IndexIn(c, letters) ==
    IF \E i \in 1..Len(letters) : letters[i] = c
    THEN CHOOSE i \in 1..Len(letters) : letters[i] = c
    ELSE 0

\* str.lower()
Lower(s) ==
    [i \in 1..Len(s) |->
        IF IndexIn(s[i], UpperLetters) > 0
        THEN LowerLetters[IndexIn(s[i], UpperLetters)]
        ELSE s[i]]

\* str.upper()
Upper(s) ==
    [i \in 1..Len(s) |->
        IF IndexIn(s[i], LowerLetters) > 0
        THEN UpperLetters[IndexIn(s[i], LowerLetters)]
        ELSE s[i]]

\* `pat in s`
Contains(s, pat) ==
    \E i \in 0..(Len(s) - Len(pat)) : SubSeq(s, i + 1, i + Len(pat)) = pat

\* s.startswith(pat)
StartsWith(s, pat) ==
    /\ Len(pat) <= Len(s)
    /\ SubSeq(s, 1, Len(pat)) = pat

\* s.split(sep) for a one-character separator: always at least one field
RECURSIVE Split(_, _)
Split(s, sep) ==
    IF \E i \in 1..Len(s) : s[i] = sep
    THEN LET k == CHOOSE i \in 1..Len(s) :
                      /\ s[i] = sep
                      /\ \A j \in 1..(i - 1) : s[j] # sep
         IN  <<SubSeq(s, 1, k - 1)>> \o Split(SubSeq(s, k + 1, Len(s)), sep)
    ELSE <<s>>

\* sep.join(parts)
RECURSIVE Join(_, _)
Join(parts, sep) ==
    IF parts = <<>> THEN <<>>
    ELSE IF Len(parts) = 1 THEN parts[1]
    ELSE parts[1] \o <<sep>> \o Join(Tail(parts), sep)

WhiteSpace == {" ", "\t", "\n", "\r"}

\* s.strip()
RECURSIVE Strip(_)
Strip(s) ==
    IF s = <<>> THEN s
    ELSE IF s[1] \in WhiteSpace THEN Strip(Tail(s))
    ELSE IF s[Len(s)] \in WhiteSpace THEN Strip(SubSeq(s, 1, Len(s) - 1))
    ELSE s

----------------------------------------------------------------------------
(* os.path.dirname on the platform the script is written for (ntpath) *)

PathSep == ";"
DirSeps == {"\\", "/"}

RECURSIVE RStripSeps(_)
RStripSeps(s) ==
    IF s # <<>> /\ s[Len(s)] \in DirSeps
    THEN RStripSeps(SubSeq(s, 1, Len(s) - 1))
    ELSE s

\* ntpath.split(p)[0]: drive + head, the head without its trailing separators
\* unless it consists of separators only
DirName(p) ==
    LET hasDrive == Len(p) >= 2 /\ p[2] = ":"
        drive    == IF hasDrive THEN SubSeq(p, 1, 2) ELSE <<>>
        rest     == IF hasDrive THEN SubSeq(p, 3, Len(p)) ELSE p
        seps     == {i \in 1..Len(rest) : rest[i] \in DirSeps}
        last     == IF seps = {} THEN 0
                    ELSE CHOOSE i \in seps : \A j \in seps : j <= i
        head     == SubSeq(rest, 1, last)
        stripped == IF RStripSeps(head) = <<>> THEN head ELSE RStripSeps(head)
    IN  drive \o stripped

----------------------------------------------------------------------------
(* PATH normalisation, something.py lines 25-40 *)

DenyMarkers == { <<"3", ".", "1", "1">>,
                 <<"p", "y", "t", "h", "o", "n", "3", "1", "1">>,
                 <<"p", "y", "3", "1", "1">> }

\* the test of line 30
IsDenied(path_dir) ==
    \E pattern \in DenyMarkers : Contains(Lower(path_dir), pattern)

IsKept(path_dir) == ~IsDenied(path_dir)

\* line 25: os.environ.get('PATH', '').split(os.pathsep)
PathDirs(env) ==
    Split(IF "PATH" \in DOMAIN env THEN env["PATH"] ELSE <<>>, PathSep)

\* lines 26-33
FilteredDirs(path_dirs) == SelectSeq(path_dirs, IsKept)
RemovedPaths(path_dirs) == SelectSeq(path_dirs, IsDenied)

\* line 39
CurrentPythonDir(exe) == DirName(exe)

\* line 40: the value assigned to os.environ['PATH']
NewPath(env, exe) ==
    CurrentPythonDir(exe) \o <<PathSep>> \o Join(FilteredDirs(PathDirs(env)), PathSep)

\* os.environ[name] = value
SetEnv(env, name, value) ==
    [n \in (DOMAIN env) \cup {name} |-> IF n = name THEN value ELSE env[n]]

----------------------------------------------------------------------------
(* Inputs *)

PyA        == <<"C", ":", "\\", "P", "y", "A">>
PyB        == <<"C", ":", "\\", "P", "y", "B">>
Py311Scr   == <<"C", ":", "\\", "P", "y", "t", "h", "o", "n", "3", "1", "1", "\\",
                "S", "c", "r", "i", "p", "t", "s">>
PY311Upper == <<"D", ":", "\\", "P", "Y", "3", "1", "1">>
Py3Dot11   == <<"E", ":", "\\", "p", "y", "-", "3", ".", "1", "1">>

\* PATH segments the inputs are built from; the empty segment gives the
\* leading, trailing and doubled separators and the empty PATH
SegmentPool == { PyA, PyB, Py311Scr, PY311Upper, Py3Dot11, <<>> }

SegLists(n) == UNION { [1..k -> SegmentPool] : k \in 1..n }

\* os.environ at process start: PATH unset, or PATH set to a joined list
Environs(n) ==
    { [v \in {} |-> <<>>] } \cup
    { [v \in {"PATH"} |-> Join(segs, PathSep)] : segs \in SegLists(n) }

ExePyA   == <<"C", ":", "\\", "P", "y", "A", "\\",
              "p", "y", "t", "h", "o", "n", ".", "e", "x", "e">>
ExePy311 == <<"C", ":", "\\", "P", "y", "t", "h", "o", "n", "3", "1", "1", "\\",
              "p", "y", "t", "h", "o", "n", ".", "e", "x", "e">>
Executables == { ExePyA, ExePy311 }

----------------------------------------------------------------------------
(* something.py: constants of the script *)

LogDir       == <<"C", ":", "\\", "t", "m", "p", "\\",
                  "s", "p", "a", "r", "k", "-", "l", "o", "g", "s">>
LocalDir     == <<"C", ":", "\\", "t", "m", "p", "\\",
                  "s", "p", "a", "r", "k", "-", "l", "o", "c", "a", "l">>
WarehouseDir == <<"C", ":", "\\", "t", "m", "p", "\\",
                  "s", "p", "a", "r", "k", "-", "w", "a", "r", "e", "h", "o", "u", "s", "e">>

\* line 51: the directories created
WorkDirs == <<LogDir, LocalDir, WarehouseDir>>

\* lines 43-48 with a third directory variable exported as well
VarAssignmentsWithWarehouse(exe) ==
    << <<"PYSPARK_PYTHON", exe>>,
       <<"PYSPARK_DRIVER_PYTHON", exe>>,
       <<"SPARK_LOG_DIR", LogDir>>,
       <<"SPARK_LOCAL_DIRS", LocalDir>>,
       <<"SPARK_WAREHOUSE_DIR", WarehouseDir>> >>

\* lines 43-48: the assignments to os.environ after PATH, in order
VarAssignments(exe) ==
    << <<"PYSPARK_PYTHON", exe>>,
       <<"PYSPARK_DRIVER_PYTHON", exe>>,
       <<"SPARK_LOG_DIR", LogDir>>,
       <<"SPARK_LOCAL_DIRS", LocalDir>> >>

RECURSIVE ApplyAssignments(_, _)
ApplyAssignments(env, assignments) ==
    IF assignments = <<>> THEN env
    ELSE ApplyAssignments(SetEnv(env, assignments[1][1], assignments[1][2]),
                          Tail(assignments))

AssignedNames(assignments) == { assignments[i][1] : i \in 1..Len(assignments) }

\* what `pip show pyspark` can print on stdout (line 60-64)
PipNothing == <<>>
PipSpark3  == <<"N", "a", "m", "e", ":", " ", "p", "y", "s", "p", "a", "r", "k", "\n",
                "V", "e", "r", "s", "i", "o", "n", ":", " ", "3", ".", "5", ".", "1", "\n">>
PipSpark4  == <<"N", "a", "m", "e", ":", " ", "p", "y", "s", "p", "a", "r", "k", "\n",
                "V", "e", "r", "s", "i", "o", "n", ":", " ", "4", ".", "0", ".", "2", "\n">>
PipOutputs == { PipNothing, PipSpark3, PipSpark4 }

VersionKey == <<"V", "e", "r", "s", "i", "o", "n", ":">>

\* line 65
HasVersion(stdout) == Contains(stdout, VersionKey)

\* lines 66-67
HasKey(line) == Contains(line, VersionKey)
ParseVersion(stdout) ==
    LET version_line == SelectSeq(Split(stdout, "\n"), HasKey)[1]
    IN  Strip(Split(version_line, ":")[2])

\* line 70
NeedsPrompt(v) == StartsWith(v, <<"4", ".">>)

\* what the user can type at the prompt of line 76
Responses == { <<"y", "e", "s">>, <<"Y">>, <<"Y", "E", "S">>, <<"n", "o">>, <<>> }

\* line 77: the answers that let the run continue
Affirmative(r) == Lower(r) \in { <<"y", "e", "s">>, <<"y">> }

\* lines 139-156: the diagnostic calls, in order
DiagSteps == <<"createDataFrame", "printSchema", "show", "count",
               "filter_show", "select_show">>

----------------------------------------------------------------------------
(* something.py: the run *)

Range(s) == { s[i] : i \in 1..Len(s) }

InitSomething ==
    /\ script = "something"
    /\ pc = "fix_path"
    /\ status = "running"
    /\ exitCode = 0
    /\ argv = << <<"s", "o", "m", "e", "t", "h", "i", "n", "g", ".", "p", "y">> >>
    /\ executable \in Executables
    /\ environ \in Environs(MaxSegs)
    /\ environ0 = environ
    /\ envReads = <<>>
    /\ envWrites = {}
    /\ dirs \in { {}, Range(WorkDirs) }
    /\ bound = {}
    /\ version = <<>>
    /\ response = <<>>
    /\ sessionArgs = <<>>
    /\ out = <<>>
    /\ stages = <<"START">>
    /\ stopAttempts = 0
    /\ raised = {}

At(label) == script = "something" /\ status = "running" /\ pc = label

\* lines 25-40: read PATH once, drop the denied segments, put the directory of
\* the running interpreter in front, write PATH back
FixPath ==
    /\ At("fix_path")
    /\ envReads' = Append(envReads, "PATH")
    /\ environ' = SetEnv(environ, "PATH", NewPath(environ, executable))
    /\ envWrites' = envWrites \cup {"PATH"}
    /\ out' = IF RemovedPaths(PathDirs(environ)) # <<>>
              THEN Append(out, "removed_paths") ELSE out
    /\ pc' = "set_vars"
    /\ UNCHANGED <<script, status, exitCode, argv, executable, environ0, dirs,
                   bound, version, response, sessionArgs, stages, stopAttempts,
                   raised>>

\* lines 43-48
SetSparkVars ==
    /\ At("set_vars")
    /\ environ' = ApplyAssignments(environ, VarAssignments(executable))
    /\ envWrites' = envWrites \cup AssignedNames(VarAssignments(executable))
    /\ stages' = Append(stages, "PATH_NORMALIZED")
    /\ pc' = "make_dirs"
    /\ UNCHANGED <<script, status, exitCode, argv, executable, environ0, envReads,
                   dirs, bound, version, response, sessionArgs, out, stopAttempts,
                   raised>>

\* lines 51-55: os.makedirs(dir_path, exist_ok=True) for each working directory
MakeDirs ==
    /\ At("make_dirs")
    /\ dirs' = dirs \cup Range(WorkDirs)
    /\ out' = Append(out, "environment_configured")
    /\ stages' = Append(stages, "DIRS_PROVISIONED")
    /\ pc' = "check_version"
    /\ UNCHANGED <<script, status, exitCode, argv, executable, environ, environ0,
                   envReads, envWrites, bound, version, response, sessionArgs,
                   stopAttempts, raised>>

\* where the run goes when the try statement of lines 59-85 is left normally or
\* through its handler
AfterVersionCheck == "import"

\* lines 60-64 raise (the interpreter cannot be started, its output cannot be
\* decoded): caught at line 84, reported, the run goes on
CheckVersionRaises ==
    /\ At("check_version")
    /\ raised' = raised \cup {"subprocess"}
    /\ out' = Append(out, "error_checking")
    /\ stages' = Append(stages, "VERSION_CHECKED")
    /\ pc' = AfterVersionCheck
    /\ UNCHANGED <<script, status, exitCode, argv, executable, environ, environ0,
                   envReads, envWrites, dirs, bound, version, response,
                   sessionArgs, stopAttempts>>

\* lines 79-82: no 'Version:' in the output; SystemExit is not an Exception, so
\* line 84 does not catch it
CheckVersionNotFound ==
    /\ At("check_version")
    /\ \E stdout \in PipOutputs :
          /\ ~HasVersion(stdout)
          /\ out' = Append(out, "not_found")
          /\ status' = "sys_exit"
          /\ exitCode' = 1
    /\ stages' = Append(stages, "VERSION_CHECKED")
    /\ UNCHANGED <<script, pc, argv, executable, environ, environ0, envReads,
                   envWrites, dirs, bound, version, response, sessionArgs,
                   stopAttempts, raised>>

\* lines 65-70 with a version that does not start with '4.'
CheckVersionFound ==
    /\ At("check_version")
    /\ \E stdout \in PipOutputs :
          /\ HasVersion(stdout)
          /\ ~NeedsPrompt(ParseVersion(stdout))
          /\ version' = ParseVersion(stdout)
    /\ bound' = bound \cup {"version"}
    /\ out' = Append(out, "current_version")
    /\ stages' = Append(stages, "VERSION_CHECKED")
    /\ pc' = AfterVersionCheck
    /\ UNCHANGED <<script, status, exitCode, argv, executable, environ, environ0,
                   envReads, envWrites, dirs, response, sessionArgs,
                   stopAttempts, raised>>

\* lines 65-78 with a version that starts with '4.' and an answer typed
CheckVersionPrompt ==
    /\ At("check_version")
    /\ \E stdout \in PipOutputs, r \in Responses :
          /\ HasVersion(stdout)
          /\ NeedsPrompt(ParseVersion(stdout))
          /\ version' = ParseVersion(stdout)
          /\ response' = r
          /\ IF Affirmative(r)
             THEN /\ pc' = AfterVersionCheck
                  /\ UNCHANGED <<status, exitCode>>
             ELSE /\ status' = "sys_exit"
                  /\ exitCode' = 0
                  /\ UNCHANGED pc
    /\ bound' = bound \cup {"version", "response"}
    /\ out' = out \o <<"current_version", "warning", "prompt">>
    /\ stages' = Append(stages, "VERSION_CHECKED")
    /\ UNCHANGED <<script, argv, executable, environ, environ0, envReads,
                   envWrites, dirs, sessionArgs, stopAttempts, raised>>

\* lines 65-76 with a version that starts with '4.' and standard input at its
\* end: input() raises EOFError, which line 84 catches
CheckVersionPromptEOF ==
    /\ At("check_version")
    /\ \E stdout \in PipOutputs :
          /\ HasVersion(stdout)
          /\ NeedsPrompt(ParseVersion(stdout))
          /\ version' = ParseVersion(stdout)
    /\ bound' = bound \cup {"version"}
    /\ raised' = raised \cup {"input"}
    /\ out' = out \o <<"current_version", "warning", "prompt", "error_checking">>
    /\ stages' = Append(stages, "VERSION_CHECKED")
    /\ pc' = AfterVersionCheck
    /\ UNCHANGED <<script, status, exitCode, argv, executable, environ, environ0,
                   envReads, envWrites, dirs, response, sessionArgs,
                   stopAttempts>>

\* lines 90-92: the engine's modules load
ImportEngine ==
    /\ At("import")
    /\ bound' = bound \cup {"SparkSession", "SparkConf"}
    /\ pc' = "create_session"
    /\ UNCHANGED <<script, status, exitCode, argv, executable, environ, environ0,
                   envReads, envWrites, dirs, version, response, sessionArgs, out,
                   stages, stopAttempts, raised>>

\* lines 90-92 raise ImportError: the statements stand outside every try, the
\* interpreter prints the traceback and ends with status 1
ImportEngineRaises ==
    /\ At("import")
    /\ raised' = raised \cup {"import"}
    /\ status' = "uncaught"
    /\ exitCode' = 1
    /\ UNCHANGED <<script, pc, argv, executable, environ, environ0, envReads,
                   envWrites, dirs, bound, version, response, sessionArgs, out,
                   stages, stopAttempts>>

\* where an exception raised inside the try of lines 94-165 goes
OnSessionError == "handler"

\* lines 96-119
CreateSession ==
    /\ At("create_session")
    /\ bound' = bound \cup {"conf", "spark"}
    /\ out' = Append(out, "session_created")
    /\ stages' = Append(stages, "SESSION_CREATED")
    /\ pc' = "diagnostics"
    /\ UNCHANGED <<script, status, exitCode, argv, executable, environ, environ0,
                   envReads, envWrites, dirs, version, response, sessionArgs,
                   stopAttempts, raised>>

\* lines 96-114 raise: `spark` is never assigned
CreateSessionRaises ==
    /\ At("create_session")
    /\ bound' = bound \cup {"conf"}
    /\ raised' = raised \cup {"create_session"}
    /\ pc' = OnSessionError
    /\ UNCHANGED <<script, status, exitCode, argv, executable, environ, environ0,
                   envReads, envWrites, dirs, version, response, sessionArgs, out,
                   stages, stopAttempts>>

\* line 117 raises: `spark` is assigned, the session is not reported as created
SetLogLevelRaises ==
    /\ At("create_session")
    /\ bound' = bound \cup {"conf", "spark"}
    /\ raised' = raised \cup {"create_session"}
    /\ pc' = OnSessionError
    /\ UNCHANGED <<script, status, exitCode, argv, executable, environ, environ0,
                   envReads, envWrites, dirs, version, response, sessionArgs, out,
                   stages, stopAttempts>>

\* lines 122-156, every call returning
RunDiagnostics ==
    /\ At("diagnostics")
    /\ bound' = bound \cup {"df"}
    /\ out' = out \o DiagSteps
    /\ stages' = Append(stages, "DIAGNOSTICS_RUN")
    /\ pc' = "summary"
    /\ UNCHANGED <<script, status, exitCode, argv, executable, environ, environ0,
                   envReads, envWrites, dirs, version, response, sessionArgs,
                   stopAttempts, raised>>

\* lines 122-156, the k-th call raising
DiagnosticsRaise ==
    /\ At("diagnostics")
    /\ \E k \in 1..Len(DiagSteps) :
          /\ out' = out \o SubSeq(DiagSteps, 1, k - 1)
          /\ bound' = IF k > 1 THEN bound \cup {"df"} ELSE bound
    /\ raised' = raised \cup {"diagnostics"}
    /\ pc' = OnSessionError
    /\ UNCHANGED <<script, status, exitCode, argv, executable, environ, environ0,
                   envReads, envWrites, dirs, version, response, sessionArgs,
                   stages, stopAttempts>>

\* lines 158-165 with `version` assigned
PrintSummary ==
    /\ At("summary")
    /\ "version" \in bound
    /\ out' = out \o <<"banner", "summary">>
    /\ pc' = "finally"
    /\ UNCHANGED <<script, status, exitCode, argv, executable, environ, environ0,
                   envReads, envWrites, dirs, bound, version, response,
                   sessionArgs, stages, stopAttempts, raised>>

\* lines 158-164 with `version` never assigned: the banner is printed, then
\* line 164 raises NameError inside the try
PrintSummaryRaises ==
    /\ At("summary")
    /\ "version" \notin bound
    /\ out' = Append(out, "banner")
    /\ raised' = raised \cup {"summary"}
    /\ pc' = OnSessionError
    /\ UNCHANGED <<script, status, exitCode, argv, executable, environ, environ0,
                   envReads, envWrites, dirs, bound, version, response,
                   sessionArgs, stages, stopAttempts>>

\* lines 167-178
HandleError ==
    /\ At("handler")
    /\ out' = out \o <<"error", "troubleshooting", "traceback">>
    /\ pc' = "finally"
    /\ UNCHANGED <<script, status, exitCode, argv, executable, environ, environ0,
                   envReads, envWrites, dirs, bound, version, response,
                   sessionArgs, stages, stopAttempts, raised>>

\* lines 180-186 with spark.stop() returning
StopSession ==
    /\ At("finally")
    /\ "spark" \in bound
    /\ stopAttempts' = stopAttempts + 1
    /\ out' = Append(out, "stopped")
    /\ stages' = Append(stages, "SESSION_STOPPED")
    /\ pc' = "notes"
    /\ UNCHANGED <<script, status, exitCode, argv, executable, environ, environ0,
                   envReads, envWrites, dirs, bound, version, response,
                   sessionArgs, raised>>

\* lines 180-186 with spark.stop() raising, or `spark` unassigned (NameError):
\* the bare except swallows it
StopSessionRaises ==
    /\ At("finally")
    /\ stopAttempts' = stopAttempts + 1
    /\ raised' = raised \cup {"stop"}
    /\ stages' = Append(stages, "SESSION_STOPPED")
    /\ pc' = "notes"
    /\ UNCHANGED <<script, status, exitCode, argv, executable, environ, environ0,
                   envReads, envWrites, dirs, bound, version, response,
                   sessionArgs, out>>

\* lines 188-206, then the end of the script
PrintNotes ==
    /\ At("notes")
    /\ out' = Append(out, "notes")
    /\ stages' = Append(stages, "END")
    /\ status' = "ended"
    /\ pc' = "done"
    /\ UNCHANGED <<script, exitCode, argv, executable, environ, environ0, envReads,
                   envWrites, dirs, bound, version, response, sessionArgs,
                   stopAttempts, raised>>

----------------------------------------------------------------------------
(* sbdl_main.py *)

ProgName == <<"s", "b", "d", "l", "_", "m", "a", "i", "n", ".", "p", "y">>

\* command-line arguments the inputs are built from
ArgPool == { <<"l", "o", "c", "a", "l">>, <<"q", "a">>,
             <<"2", "0", "2", "4", "-", "0", "1", "-", "3", "1">> }

ArgVectors == { <<ProgName>> \o args :
                    args \in UNION { [1..k -> ArgPool] : k \in 0..MaxArgs } }

InitMain ==
    /\ script = "sbdl_main"
    /\ pc = "main_check"
    /\ status = "running"
    /\ exitCode = 0
    /\ argv \in ArgVectors
    /\ executable = ExePyA
    /\ environ = [v \in {} |-> <<>>]
    /\ environ0 = environ
    /\ envReads = <<>>
    /\ envWrites = {}
    /\ dirs = {}
    /\ bound = {}
    /\ version = <<>>
    /\ response = <<>>
    /\ sessionArgs = <<>>
    /\ out = <<>>
    /\ stages = <<>>
    /\ stopAttempts = 0
    /\ raised = {}

AtMain(label) == script = "sbdl_main" /\ status = "running" /\ pc = label

\* the check of line 7 with the bound off by one
ArgsMissingOffByOne(av) == Len(av) < 2

\* line 7
ArgsMissing(av) == Len(av) < 3

\* lines 7-9
MainUsageExit ==
    /\ AtMain("main_check")
    /\ ArgsMissing(argv)
    /\ out' = Append(out, "usage")
    /\ status' = "sys_exit"
    /\ exitCode' = -1
    /\ UNCHANGED <<script, pc, argv, executable, environ, environ0, envReads,
                   envWrites, dirs, bound, version, response, sessionArgs,
                   stages, stopAttempts, raised>>

\* lines 7, 11-12
MainReadArgs ==
    /\ AtMain("main_check")
    /\ ~ArgsMissing(argv)
    /\ bound' = bound \cup {"job_run_env", "local_date"}
    /\ pc' = "main_session"
    /\ UNCHANGED <<script, status, exitCode, argv, executable, environ, environ0,
                   envReads, envWrites, dirs, version, response, sessionArgs, out,
                   stages, stopAttempts, raised>>

\* line 11: sys.argv[1].upper()
JobRunEnv(av) == Upper(av[2])

\* line 14, the factory returning a session
MainGetSession ==
    /\ AtMain("main_session")
    /\ sessionArgs' = Append(sessionArgs, JobRunEnv(argv))
    /\ bound' = bound \cup {"spark"}
    /\ pc' = "main_logger"
    /\ UNCHANGED <<script, status, exitCode, argv, executable, environ, environ0,
                   envReads, envWrites, dirs, version, response, out, stages,
                   stopAttempts, raised>>

\* line 14, the factory raising: nothing catches it
MainGetSessionRaises ==
    /\ AtMain("main_session")
    /\ sessionArgs' = Append(sessionArgs, JobRunEnv(argv))
    /\ raised' = raised \cup {"get_spark_session"}
    /\ status' = "uncaught"
    /\ exitCode' = 1
    /\ UNCHANGED <<script, pc, argv, executable, environ, environ0, envReads,
                   envWrites, dirs, bound, version, response, out, stages,
                   stopAttempts>>

\* line 15
MainCreateLogger ==
    /\ AtMain("main_logger")
    /\ bound' = bound \cup {"logger"}
    /\ pc' = "main_info"
    /\ UNCHANGED <<script, status, exitCode, argv, executable, environ, environ0,
                   envReads, envWrites, dirs, version, response, sessionArgs, out,
                   stages, stopAttempts, raised>>

\* line 17, then the end of the script
MainLogInfo ==
    /\ AtMain("main_info")
    /\ out' = Append(out, "info")
    /\ status' = "ended"
    /\ pc' = "done"
    /\ UNCHANGED <<script, exitCode, argv, executable, environ, environ0, envReads,
                   envWrites, dirs, bound, version, response, sessionArgs, stages,
                   stopAttempts, raised>>

----------------------------------------------------------------------------
(* Specifications *)

\* a process runs one of the two entry points from start to end
Init == InitMain \/ InitSomething

Next ==
    \/ MainUsageExit
    \/ MainReadArgs
    \/ MainGetSession
    \/ MainGetSessionRaises
    \/ MainCreateLogger
    \/ MainLogInfo
    \/ FixPath
    \/ SetSparkVars
    \/ MakeDirs
    \/ CheckVersionRaises
    \/ CheckVersionNotFound
    \/ CheckVersionFound
    \/ CheckVersionPrompt
    \/ CheckVersionPromptEOF
    \/ ImportEngine
    \/ ImportEngineRaises
    \/ CreateSession
    \/ CreateSessionRaises
    \/ SetLogLevelRaises
    \/ RunDiagnostics
    \/ DiagnosticsRaise
    \/ PrintSummary
    \/ PrintSummaryRaises
    \/ HandleError
    \/ StopSession
    \/ StopSessionRaises
    \/ PrintNotes

Spec == Init /\ [][Next]_vars

----------------------------------------------------------------------------
(* Properties *)

IsPrefix(s, t) == Len(s) <= Len(t) /\ s = SubSeq(t, 1, Len(s))

Printed(tag) == tag \in Range(out)

\* the PATH rewrite of something.py has happened
PathRewritten == script = "something" /\ "PATH" \in envWrites

\* the segments of PATH at process start and after the rewrite
InputSegments == PathDirs(environ0)
OutputSegments == Split(environ["PATH"], PathSep)

\* C1: after the rewrite, a PATH that split into N segments of which M match a
\* deny-list marker has exactly 1 + (N - M) segments, the first is the
\* directory of the running interpreter, and the rest are the non-matching
\* input segments in their original order.
C1_SegmentCountAndOrder ==
    PathRewritten =>
        LET N == Len(InputSegments)
            M == Cardinality({ i \in 1..N : IsDenied(InputSegments[i]) })
        IN  /\ Len(OutputSegments) = 1 + (N - M)
            /\ OutputSegments[1] = DirName(executable)
            /\ Tail(OutputSegments) = SelectSeq(InputSegments, IsKept)

\* C2: after the rewrite, no segment of PATH is empty, whatever PATH was
\* (unset, empty, or with leading, trailing or doubled separators).
C2_NoEmptySegment ==
    PathRewritten =>
        \A i \in 1..Len(OutputSegments) : OutputSegments[i] # <<>>

\* C3: normalising the rewritten PATH once more, with the same interpreter,
\* removes no segment and yields the same segments with one more copy of the
\* interpreter's directory in front; for every interpreter directory.
C3_SecondPassRemovesNothing ==
    PathRewritten =>
        LET second == Split(NewPath(environ, executable), PathSep)
        IN  /\ RemovedPaths(PathDirs(environ)) = <<>>
            /\ second = <<DirName(executable)>> \o OutputSegments

\* C4: in sbdl_main.py, with fewer than 3 entries in argv the process prints
\* the usage message and exits with code -1, get_spark_session is never called
\* and no logger is created; with 3 or more entries the usage exit is not taken.
C4_UsageExit ==
    script = "sbdl_main" =>
        /\ (Len(argv) < 3) =>
              /\ sessionArgs = <<>>
              /\ "spark" \notin bound
              /\ "logger" \notin bound
              /\ pc = "main_check"
              /\ status \in {"running", "sys_exit"}
              /\ status = "sys_exit" => (exitCode = -1 /\ out = <<"usage">>)
              /\ status = "running" => out = <<>>
        /\ (Len(argv) >= 3) =>
              /\ ~Printed("usage")
              /\ ~(status = "sys_exit")
              /\ exitCode # -1

\* a run of sbdl_main.py with too few arguments has taken the usage exit
C4_Witness ==
    /\ script = "sbdl_main"
    /\ Len(argv) = 2
    /\ status = "sys_exit"
    /\ Printed("usage")

\* the major version of a dotted version string
MajorVersion(v) == Split(v, ".")[1]

\* C5: when the metadata yields a version, the run goes on to session creation
\* if and only if the major version is not 4, or it is 4 and the answer is
\* 'yes' or 'y' in any case; the prompt is issued exactly when the major
\* version is 4; any other answer ends the process with exit code 0 before a
\* session exists.
C5_VersionGate ==
    (script = "something" /\ "version" \in bound) =>
        LET major4   == MajorVersion(version) = <<"4">>
            saidYes  == /\ "response" \in bound
                        /\ Lower(response) \in { <<"y", "e", "s">>, <<"y">> }
            proceeds == pc # "check_version"
        IN  /\ proceeds <=> (~major4 \/ saidYes)
            /\ Printed("prompt") <=> major4
            /\ (major4 /\ ~saidYes) =>
                  (status = "sys_exit" /\ exitCode = 0 /\ "spark" \notin bound)

\* C6: the only early terminations with an explicit exit code are the usage
\* check of sbdl_main.py (-1) and the version-gate opt-out of something.py (0);
\* every other failure in something.py, a component that is not installed
\* included, is caught and falls through to the cleanup instead of exiting.
C6_OnlyTwoEarlyExits ==
    /\ status = "sys_exit" =>
          \/ script = "sbdl_main" /\ pc = "main_check" /\ exitCode = -1
          \/ script = "something" /\ pc = "check_version" /\ exitCode = 0
    /\ script = "something" =>
          /\ Printed("not_found") => status # "sys_exit"
          /\ status # "uncaught"
          /\ (raised # {} /\ status # "running") =>
                (status = "ended" /\ stopAttempts = 1)

\* C7: an exception raised while the engine is loaded, the session is created
\* or a diagnostic step runs is caught and reported, never re-raised; on each
\* such path and on the success path the stop of the session is attempted
\* exactly once, its failure is suppressed, and the script goes on to its
\* usage notes and ends normally.
C7_SessionFailuresCaught ==
    script = "something" =>
        /\ (raised \cap {"import", "create_session", "diagnostics"} # {}) =>
              /\ status # "uncaught"
              /\ pc \in {"finally", "notes", "done"} => Printed("error")
        /\ stopAttempts = (IF pc \in {"notes", "done"} THEN 1 ELSE 0)
        /\ (pc \notin {"fix_path", "set_vars", "make_dirs", "check_version"}
              /\ status # "running") =>
              (status = "ended" /\ out[Len(out)] = "notes")

\* the names something.py assigns in os.environ
WrittenNames == { "PATH", "PYSPARK_PYTHON", "PYSPARK_DRIVER_PYTHON",
                  "SPARK_LOG_DIR", "SPARK_LOCAL_DIRS" }

EnvStageDone == script = "something" /\ pc \notin {"fix_path", "set_vars"}

\* C8 (as amended): once the normalisation stage is passed the script has
\* written exactly PATH, two runtime-selection variables (both the path of the
\* running interpreter) and two directory-location variables (log directory and
\* local scratch directory); the warehouse directory is in no environment
\* variable; PATH is read once and no written variable is read back.
C8_FiveVariablesWritten ==
    script = "something" =>
        /\ IsPrefix(envReads, <<"PATH">>)
        /\ pc = "fix_path" => (envWrites = {} /\ envReads = <<>>)
        /\ pc = "set_vars" => envWrites = {"PATH"}
        /\ EnvStageDone =>
              /\ envWrites = WrittenNames
              /\ DOMAIN environ = (DOMAIN environ0) \cup WrittenNames
              /\ environ["PYSPARK_PYTHON"] = executable
              /\ environ["PYSPARK_DRIVER_PYTHON"] = executable
              /\ environ["SPARK_LOG_DIR"] = LogDir
              /\ environ["SPARK_LOCAL_DIRS"] = LocalDir
              /\ \A n \in DOMAIN environ : environ[n] # WarehouseDir
              /\ envReads = <<"PATH">>

\* a run of something.py has passed the normalisation stage and ended
C8_Witness ==
    /\ EnvStageDone
    /\ status = "ended"
    /\ Cardinality(envWrites) = 5

\* C8 (as claimed): once the normalisation stage is passed the script has
\* written exactly PATH, two runtime-selection variables and three
\* directory-location variables (log, local scratch and warehouse directory).
C8_SixVariablesWritten ==
    EnvStageDone =>
        LET others      == envWrites \ {"PATH"}
            runtimeVars == { n \in others : environ[n] = executable }
            dirVars     == { n \in others : environ[n] \in Range(WorkDirs) }
        IN  /\ "PATH" \in envWrites
            /\ Cardinality(runtimeVars) = 2
            /\ Cardinality(dirVars) = 3
            /\ { environ[n] : n \in dirVars } = Range(WorkDirs)
            /\ others = runtimeVars \cup dirVars
            /\ envReads = <<"PATH">>

FullWalk ==
    <<"START", "PATH_NORMALIZED", "DIRS_PROVISIONED", "VERSION_CHECKED",
      "SESSION_CREATED", "DIAGNOSTICS_RUN", "SESSION_STOPPED", "END">>
\* the walk of a run whose session creation failed
SessionFailureWalk ==
    <<"START", "PATH_NORMALIZED", "DIRS_PROVISIONED", "VERSION_CHECKED",
      "SESSION_STOPPED", "END">>
\* the walk of a run whose diagnostics failed
DiagnosticsFailureWalk ==
    <<"START", "PATH_NORMALIZED", "DIRS_PROVISIONED", "VERSION_CHECKED",
      "SESSION_CREATED", "SESSION_STOPPED", "END">>

\* C9: every run of something.py walks START, PATH_NORMALIZED,
\* DIRS_PROVISIONED, VERSION_CHECKED, SESSION_CREATED, DIAGNOSTICS_RUN,
\* SESSION_STOPPED, END in this order; the PATH rewrite, the companion
\* variables and the directories precede the engine import; the only ways out
\* of VERSION_CHECKED are abort and continue; a failure of session creation
\* (the engine import included) goes to SESSION_STOPPED and END without
\* DIAGNOSTICS_RUN.
C9_StageWalk ==
    script = "something" =>
        /\ \/ IsPrefix(stages, FullWalk)
           \/ IsPrefix(stages, SessionFailureWalk)
           \/ IsPrefix(stages, DiagnosticsFailureWalk)
        /\ (pc \notin {"fix_path", "set_vars", "make_dirs", "check_version"}) =>
              /\ WrittenNames \subseteq envWrites
              /\ Range(WorkDirs) \subseteq dirs
        /\ (stages[Len(stages)] = "VERSION_CHECKED" /\ status # "running") =>
              (status = "sys_exit" /\ pc = "check_version")
        /\ (raised \cap {"import", "create_session"} # {}) =>
              /\ ~("DIAGNOSTICS_RUN" \in Range(stages))
              /\ status # "running" => stages = SessionFailureWalk

\* C10: in one run of something.py the success banner and the error report
\* exclude each other, also when the version check raised and was caught.
C10_BannerExcludesError ==
    script = "something" => ~(Printed("banner") /\ Printed("error"))

====
